---- MODULE Spec2Model ----
(***************************************************************************)
(* A model of the MessagePack decoder of src/decode.rs.                    *)
(*                                                                         *)
(* The byte source is an io::Cursor over a byte slice: the slice `input`   *)
(* and the position `pos`.  Every public reader is a pure function of the  *)
(* cursor returning the result and the cursor afterwards; one action per   *)
(* reader applies it to the source.  The variables `reader`, `start` and   *)
(* `result` record the last call, as the tests of the source observe it    *)
(* (the returned value and cur.position()); `dest` is the destination      *)
(* buffer of the last read_str call as that call left it.                  *)
(*                                                                         *)
(* Integers of the program are up to 64 bits wide, TLC's are 32 bits wide: *)
(* a decoded number is held as a sign and four 16-bit limbs (Num).         *)
(***************************************************************************)
EXTENDS Integers, Sequences, FiniteSets, TLC

VARIABLES input, pos, reader, start, result, dest, calls

vars == <<input, pos, reader, start, result, dest, calls>>

(***************************************************************************)
(* Bounds of the model.                                                    *)
(***************************************************************************)
\* The number of bytes an input holds beyond the longest field a reader
\* reads after its first byte.
MaxExtra == 1
\* The number of reader calls made on one source.
MaxCalls == 2
\* The longest destination buffer handed to read_str.
MaxBuf == 2

\* The longest string length declared by the string inputs.
MaxStr == 2

(***************************************************************************)
(* Program constants.                                                      *)
(***************************************************************************)
FIXSTR_SIZE == 31
FIXARRAY_SIZE == 15
FIXMAP_SIZE == 15

(***************************************************************************)
(* Numbers.  Num is a mathematical integer of up to 64 bits of magnitude:  *)
(* neg is its sign, mag its magnitude as four base-65536 limbs, the most   *)
(* significant first.  Zero is never negative.                             *)
(***************************************************************************)
Base == 256 * 256

ZeroMag == <<0, 0, 0, 0>>

Unsigned(mag) == [neg |-> FALSE, mag |-> mag]

\* A small integer (|i| < 2^31) as a Num.
IntToNum(i) ==
    LET a == IF i < 0 THEN 0 - i ELSE i
    IN  [neg |-> i < 0, mag |-> <<0, 0, a \div Base, a % Base>>]

\* mag * 256 + b, modulo 2^64: one step of assembling a number from bytes,
\* the most significant byte first.
Shl8Or(mag, b) ==
    LET t4 == mag[4] * 256 + b
        t3 == mag[3] * 256 + (t4 \div Base)
        t2 == mag[2] * 256 + (t3 \div Base)
        t1 == mag[1] * 256 + (t2 \div Base)
    IN  <<t1 % Base, t2 % Base, t3 % Base, t4 % Base>>

RECURSIVE FoldBytes(_, _)
FoldBytes(mag, bytes) ==
    IF bytes = <<>> THEN mag
    ELSE FoldBytes(Shl8Or(mag, Head(bytes)), Tail(bytes))

\* byteorder's LittleEndian: the first byte read is the least significant.
LittleEndian(bytes) ==
    FoldBytes(ZeroMag, [i \in 1..Len(bytes) |-> bytes[Len(bytes) + 1 - i]])

\* Mutant of BigEndian: the bytes are taken in the other order.
BigEndianSwapped(bytes) == LittleEndian(bytes)

\* byteorder's BigEndian: the first byte read is the most significant.
BigEndian(bytes) == FoldBytes(ZeroMag, bytes)

\* The magnitude of the negative number whose k-byte two's complement
\* pattern is mag (mag has its top bit set): 2^(8k) - mag, computed as the
\* complement of the low 8k bits plus one.
LimbMask(k, i) ==
    \* the bits of limb i (1 = most significant) that lie in the low 8k bits
    CASE k = 1 -> IF i = 4 THEN 255 ELSE 0
      [] k = 2 -> IF i = 4 THEN Base - 1 ELSE 0
      [] k = 4 -> IF i >= 3 THEN Base - 1 ELSE 0
      [] OTHER -> Base - 1

AddOne(mag) ==
    LET t4 == mag[4] + 1
        t3 == mag[3] + (t4 \div Base)
        t2 == mag[2] + (t3 \div Base)
        t1 == mag[1] + (t2 \div Base)
    IN  <<t1 % Base, t2 % Base, t3 % Base, t4 % Base>>

TwosNeg(mag, k) == AddOne([i \in 1..4 |-> LimbMask(k, i) - mag[i]])

\* The sign bit of a k-byte pattern.
TopBit(mag, k) ==
    CASE k = 1 -> mag[4] >= 128
      [] k = 2 -> mag[4] >= Base \div 2
      [] k = 4 -> mag[3] >= Base \div 2
      [] OTHER -> mag[1] >= Base \div 2

\* `x as iN` of the unsigned k-byte value mag: its two's complement reading.
AsSigned(mag, k) ==
    IF TopBit(mag, k) THEN [neg |-> TRUE, mag |-> TwosNeg(mag, k)]
    ELSE Unsigned(mag)

\* Byte j of a magnitude, byte 0 the least significant.
ByteAt(mag, j) ==
    IF j % 2 = 0 THEN mag[4 - (j \div 2)] % 256 ELSE mag[4 - (j \div 2)] \div 256

\* mem::transmute of a u32 to [u8; 4]: its bytes in the byte order of the
\* target the program is built for.
transmute(mag, target_endian) ==
    IF target_endian = "little"
    THEN <<ByteAt(mag, 0), ByteAt(mag, 1), ByteAt(mag, 2), ByteAt(mag, 3)>>
    ELSE <<ByteAt(mag, 3), ByteAt(mag, 2), ByteAt(mag, 1), ByteAt(mag, 0)>>

\* n < v, for a Num v >= 0 and a small integer n >= 0.
\* v >= n for a Num v and a small n >= 0.
ExceedsOrEquals(v, n) ==
    v.mag[1] > 0 \/ v.mag[2] > 0 \/ v.mag[3] > 0 \/ v.mag[4] >= n

Exceeds(v, n) ==
    v.mag[1] > 0 \/ v.mag[2] > 0 \/ v.mag[3] > 0 \/ v.mag[4] > n

\* `v as usize` of a Num v that does not exceed a small integer.
as_usize(v) == v.mag[4]

\* a & b on bytes.
RECURSIVE BitAnd(_, _)
BitAnd(a, b) ==
    IF a = 0 \/ b = 0 THEN 0
    ELSE (a % 2) * (b % 2) + 2 * BitAnd(a \div 2, b \div 2)

(***************************************************************************)
(* Results and errors.                                                     *)
(***************************************************************************)
Ok(v) == [ok |-> TRUE, val |-> v]
Err(e) == [ok |-> FALSE, err |-> e]

UnexpectedEOF == <<"UnexpectedEOF">>

TypeMismatch == <<"TypeMismatch">>
Unexpected(b) == <<"Unexpected", b>>

InvalidMarker(m) == <<"InvalidMarker", m>>
InvalidMarkerRead(r) == <<"InvalidMarkerRead", r>>
InvalidDataRead(r) == <<"InvalidDataRead", r>>
BufferSizeTooSmall(n) == <<"BufferSizeTooSmall", n>>
InvalidDataCopy(n, r) == <<"InvalidDataCopy", n, r>>
InvalidUtf8(n, e) == <<"InvalidUtf8", n, e>>

\* The Utf8Error of a failed from_utf8; which error it is is not modelled.
Utf8Error == <<"Utf8Error">>

\* A panic (unimplemented!(), unwrap() of an Err, a slice index out of
\* range): the call does not return, the thread unwinds.  It is no value of
\* Error; the source stays where the reads that came before left it.
Panic == [ok |-> FALSE, err |-> <<"panic">>]

\* What a reader returns: the result and the cursor position afterwards.
Ret(res, p) == [res |-> res, pos |-> p]

(***************************************************************************)
(* The byte source: io::Cursor<&[u8]>, rd = [inner, pos].                  *)
(***************************************************************************)
Cursor(inner, p) == [inner |-> inner, pos |-> p]

Remaining(rd) == Len(rd.inner) - rd.pos

\* byteorder's read of exactly k bytes: the k bytes, or UnexpectedEOF once
\* the source is exhausted, with the bytes that were available consumed.
\* A read that leaves the source where it was when it fails.
read_full_rollback(rd, k) ==
    IF Remaining(rd) >= k
    THEN [ok |-> TRUE, bytes |-> SubSeq(rd.inner, rd.pos + 1, rd.pos + k),
          pos |-> rd.pos + k]
    ELSE [ok |-> FALSE, bytes |-> <<>>, pos |-> rd.pos]

read_full(rd, k) ==
    IF Remaining(rd) >= k
    THEN [ok |-> TRUE, bytes |-> SubSeq(rd.inner, rd.pos + 1, rd.pos + k),
          pos |-> rd.pos + k]
    ELSE [ok |-> FALSE, bytes |-> <<>>, pos |-> Len(rd.inner)]

(***************************************************************************)
(* The marker table.                                                       *)
(***************************************************************************)
Arm(lo, hi, tag) == [lo |-> lo, hi |-> hi, tag |-> tag]

\* The arms of the match of Marker::from_u64, in source order, but for the
\* final wildcard.  The arm of 0xc1 yields None.
MarkerArms ==
    << Arm(0, 127, "PositiveFixnum"),
       Arm(224, 255, "NegativeFixnum"),
       Arm(128, 143, "FixedMap"),
       Arm(144, 159, "FixedArray"),
       Arm(160, 191, "FixedString"),
       Arm(192, 192, "Null"),
       Arm(193, 193, "None"),
       Arm(194, 194, "False"),
       Arm(195, 195, "True"),
       Arm(196, 196, "Bin8"),
       Arm(197, 197, "Bin16"),
       Arm(198, 198, "Bin32"),
       Arm(199, 199, "Ext8"),
       Arm(200, 200, "Ext16"),
       Arm(201, 201, "Ext32"),
       Arm(202, 202, "F32"),
       Arm(203, 203, "F64"),
       Arm(204, 204, "U8"),
       Arm(205, 205, "U16"),
       Arm(206, 206, "U32"),
       Arm(207, 207, "U64"),
       Arm(208, 208, "I8"),
       Arm(209, 209, "I16"),
       Arm(210, 210, "I32"),
       Arm(211, 211, "I64"),
       Arm(212, 212, "FixExt1"),
       Arm(213, 213, "FixExt2"),
       Arm(214, 214, "FixExt4"),
       Arm(215, 215, "FixExt8"),
       Arm(216, 216, "FixExt16"),
       Arm(217, 217, "Str8"),
       Arm(218, 218, "Str16"),
       Arm(219, 219, "Str32"),
       Arm(220, 220, "Array16"),
       Arm(221, 221, "Array32"),
       Arm(222, 222, "Map16"),
       Arm(223, 223, "Map32") >>

\* Mutant of Matches: a range pattern that excludes its upper end.
MatchesExclusive(n, arm) == arm.lo <= n /\ n < arm.hi

\* A range pattern lo ... hi includes both ends.
Matches(n, arm) == arm.lo <= n /\ n <= arm.hi

\* The arms that match n.
MatchingArms(n) == {i \in 1..Len(MarkerArms) : Matches(n, MarkerArms[i])}

Min(S) == CHOOSE x \in S : \A y \in S : x <= y

\* `val as u8` and `val as i8` of a value below 2^64.
as_u8(n) == n % 256
\* Mutant of as_i8: the byte is not reinterpreted as signed.
as_i8_unsigned(n) == n % 256

as_i8(n) == IF n % 256 >= 128 THEN (n % 256) - 256 ELSE n % 256

Marker(tag, v) == [tag |-> tag, v |-> v]

None == Marker("None", 0)

\* The right-hand side of the arm with tag `tag`, matched by n: v is the
\* payload the arm extracts from the byte (0 when the marker carries none).
ArmResult(tag, n) ==
    CASE tag = "PositiveFixnum" -> Marker(tag, as_u8(n))
      [] tag = "NegativeFixnum" -> Marker(tag, as_i8(n))
      [] tag = "FixedMap" -> Marker(tag, BitAnd(as_u8(n), FIXMAP_SIZE))
      [] tag = "FixedArray" -> Marker(tag, BitAnd(as_u8(n), FIXARRAY_SIZE))
      [] tag = "FixedString" -> Marker(tag, BitAnd(as_u8(n), FIXSTR_SIZE))
      [] OTHER -> Marker(tag, 0)

\* The first of the arms `arms` decides; the wildcard yields None.
FirstArm(arms, n) ==
    IF arms = {} THEN None ELSE ArmResult(MarkerArms[Min(arms)].tag, n)

\* Marker::from_u64.
from_u64(n) == FirstArm(MatchingArms(n), n)

\* FromPrimitive::from_u8, the provided method: from_u64(n as u64).
from_u8(n) == from_u64(n)

\* try!(e) followed by F: an error of e is returned at once, a value and
\* the position reached are passed on.
try(r, F(_, _)) == IF r.res.ok THEN F(r.res.val, r.pos) ELSE r

\* A match that reports an unknown byte as a marker of the wrong type.
MarkerOrTypeMismatch(marker, val, p) ==
    IF marker # None THEN Ret(Ok(marker), p)
    ELSE Ret(Err(InvalidMarker(TypeMismatch)), p)

\* The match of read_marker on the decoded byte.
MarkerOrUnexpected(marker, val, p) ==
    IF marker # None THEN Ret(Ok(marker), p)
    ELSE Ret(Err(InvalidMarker(Unexpected(val))), p)

\* A read that reports the end of the source as a failed data read.
read_byte_data_error(rd) ==
    IF Remaining(rd) >= 1
    THEN Ret(Ok(rd.inner[rd.pos + 1]), rd.pos + 1)
    ELSE Ret(Err(InvalidDataRead(UnexpectedEOF)), rd.pos)

\* rd.read_u8(): one byte of the source.
read_byte(rd) ==
    IF Remaining(rd) >= 1
    THEN Ret(Ok(rd.inner[rd.pos + 1]), rd.pos + 1)
    ELSE Ret(Err(InvalidMarkerRead(UnexpectedEOF)), rd.pos)

read_marker(rd) ==
    try(read_byte(rd), LAMBDA val, p : MarkerOrUnexpected(from_u8(val), val, p))

(***************************************************************************)
(* The fixed-width data readers generated by make_read_data_fn: k bytes,   *)
(* big-endian, read as unsigned or as two's complement.                    *)
(***************************************************************************)
\* A data read that reports the end of the source as a failed marker read.
make_read_data_fn_marker_error(rd, k, signed) ==
    LET r == read_full(rd, k)
    IN  IF r.ok
        THEN Ret(Ok(IF signed THEN AsSigned(BigEndian(r.bytes), k)
                    ELSE Unsigned(BigEndian(r.bytes))), r.pos)
        ELSE Ret(Err(InvalidMarkerRead(UnexpectedEOF)), r.pos)

make_read_data_fn(rd, k, signed) ==
    LET r == read_full(rd, k)
    IN  IF r.ok
        THEN Ret(Ok(IF signed THEN AsSigned(BigEndian(r.bytes), k)
                    ELSE Unsigned(BigEndian(r.bytes))), r.pos)
        ELSE Ret(Err(InvalidDataRead(UnexpectedEOF)), r.pos)

read_data_u8(rd) == make_read_data_fn(rd, 1, FALSE)
read_data_u16(rd) == make_read_data_fn(rd, 2, FALSE)
read_data_u32(rd) == make_read_data_fn(rd, 4, FALSE)
read_data_u64(rd) == make_read_data_fn(rd, 8, FALSE)
read_data_i8(rd) == make_read_data_fn(rd, 1, TRUE)
read_data_i16(rd) == make_read_data_fn(rd, 2, TRUE)
read_data_i32(rd) == make_read_data_fn(rd, 4, TRUE)
read_data_i64(rd) == make_read_data_fn(rd, 8, TRUE)
\* A float is held as its IEEE 754 bit pattern.
read_data_f32(rd) == make_read_data_fn(rd, 4, FALSE)
read_data_f64(rd) == make_read_data_fn(rd, 8, FALSE)

\* The source rd once it has advanced to position p.
At(rd, p) == Cursor(rd.inner, p)

(***************************************************************************)
(* The typed readers.                                                      *)
(***************************************************************************)
read_nil(rd) ==
    try(read_marker(rd), LAMBDA marker, p :
        CASE marker.tag = "Null" -> Ret(Ok("unit"), p)
          [] OTHER -> Ret(Err(InvalidMarker(TypeMismatch)), p))

read_bool(rd) ==
    try(read_marker(rd), LAMBDA marker, p :
        CASE marker.tag = "True" -> Ret(Ok(TRUE), p)
          [] marker.tag = "False" -> Ret(Ok(FALSE), p)
          [] OTHER -> Ret(Err(InvalidMarker(TypeMismatch)), p))

read_pfix(rd) ==
    try(read_marker(rd), LAMBDA marker, p :
        CASE marker.tag = "PositiveFixnum" ->
               Ret(Ok(IntToNum(marker.v)), p)
          [] OTHER -> Ret(Err(InvalidMarker(TypeMismatch)), p))

read_nfix(rd) ==
    try(read_marker(rd), LAMBDA marker, p :
        CASE marker.tag = "NegativeFixnum" ->
               Ret(Ok(IntToNum(marker.v)), p)
          [] OTHER -> Ret(Err(InvalidMarker(TypeMismatch)), p))

read_i8(rd) ==
    try(read_marker(rd), LAMBDA marker, p :
        CASE marker.tag = "I8" -> read_data_i8(At(rd, p))
          [] OTHER -> Ret(Err(InvalidMarker(TypeMismatch)), p))

read_i16(rd) ==
    try(read_marker(rd), LAMBDA marker, p :
        CASE marker.tag = "I16" -> read_data_i16(At(rd, p))
          [] OTHER -> Ret(Err(InvalidMarker(TypeMismatch)), p))

read_i32(rd) ==
    try(read_marker(rd), LAMBDA marker, p :
        CASE marker.tag = "I32" -> read_data_i32(At(rd, p))
          [] OTHER -> Ret(Err(InvalidMarker(TypeMismatch)), p))

read_i64(rd) ==
    try(read_marker(rd), LAMBDA marker, p :
        CASE marker.tag = "I64" -> read_data_i64(At(rd, p))
          [] OTHER -> Ret(Err(InvalidMarker(TypeMismatch)), p))

\* Mutant of read_u8: a positive fixnum is accepted too.
read_u8_lax(rd) ==
    try(read_marker(rd), LAMBDA marker, p :
        CASE marker.tag = "U8" -> read_data_u8(At(rd, p))
          [] marker.tag = "PositiveFixnum" -> Ret(Ok(IntToNum(marker.v)), p)
          [] OTHER -> Ret(Err(InvalidMarker(TypeMismatch)), p))

read_u8(rd) ==
    try(read_marker(rd), LAMBDA marker, p :
        CASE marker.tag = "U8" -> read_data_u8(At(rd, p))
          [] OTHER -> Ret(Err(InvalidMarker(TypeMismatch)), p))

read_u16(rd) ==
    try(read_marker(rd), LAMBDA marker, p :
        CASE marker.tag = "U16" -> read_data_u16(At(rd, p))
          [] OTHER -> Ret(Err(InvalidMarker(TypeMismatch)), p))

read_u32(rd) ==
    try(read_marker(rd), LAMBDA marker, p :
        CASE marker.tag = "U32" -> read_data_u32(At(rd, p))
          [] OTHER -> Ret(Err(InvalidMarker(TypeMismatch)), p))

read_u64(rd) ==
    try(read_marker(rd), LAMBDA marker, p :
        CASE marker.tag = "U64" -> read_data_u64(At(rd, p))
          [] OTHER -> Ret(Err(InvalidMarker(TypeMismatch)), p))

\* `x as u64`, `x as i64`, `x as u32` of a narrower integer of the same
\* signedness: the value is kept.
\* Mutant of read_u64_loosely: an I8 payload is accepted and read unsigned.
read_u64_loosely_signed(rd) ==
    try(read_marker(rd), LAMBDA marker, p :
        CASE marker.tag = "PositiveFixnum" -> Ret(Ok(IntToNum(marker.v)), p)
          [] marker.tag \in {"U8", "I8"} -> read_data_u8(At(rd, p))
          [] marker.tag = "U16" -> read_data_u16(At(rd, p))
          [] marker.tag = "U32" -> read_data_u32(At(rd, p))
          [] marker.tag = "U64" -> read_data_u64(At(rd, p))
          [] OTHER -> Ret(Err(InvalidMarker(TypeMismatch)), p))

read_u64_loosely(rd) ==
    try(read_marker(rd), LAMBDA marker, p :
        CASE marker.tag = "PositiveFixnum" ->
               Ret(Ok(IntToNum(marker.v)), p)
          [] marker.tag = "U8" -> read_data_u8(At(rd, p))
          [] marker.tag = "U16" -> read_data_u16(At(rd, p))
          [] marker.tag = "U32" -> read_data_u32(At(rd, p))
          [] marker.tag = "U64" -> read_data_u64(At(rd, p))
          [] OTHER -> Ret(Err(InvalidMarker(TypeMismatch)), p))

\* Mutant of read_i64_loosely: the I16 payload is zero-extended.
read_i64_loosely_zero_extended(rd) ==
    try(read_marker(rd), LAMBDA marker, p :
        CASE marker.tag = "NegativeFixnum" -> Ret(Ok(IntToNum(marker.v)), p)
          [] marker.tag = "I8" -> read_data_i8(At(rd, p))
          [] marker.tag = "I16" -> read_data_u16(At(rd, p))
          [] marker.tag = "I32" -> read_data_i32(At(rd, p))
          [] marker.tag = "I64" -> read_data_i64(At(rd, p))
          [] OTHER -> Ret(Err(InvalidMarker(TypeMismatch)), p))

read_i64_loosely(rd) ==
    try(read_marker(rd), LAMBDA marker, p :
        CASE marker.tag = "NegativeFixnum" ->
               Ret(Ok(IntToNum(marker.v)), p)
          [] marker.tag = "I8" -> read_data_i8(At(rd, p))
          [] marker.tag = "I16" -> read_data_i16(At(rd, p))
          [] marker.tag = "I32" -> read_data_i32(At(rd, p))
          [] marker.tag = "I64" -> read_data_i64(At(rd, p))
          [] OTHER -> Ret(Err(InvalidMarker(TypeMismatch)), p))

\* The Integer sum: Integer::U64(n) or Integer::I64(n).
Integer(variant, n) == [variant |-> variant, n |-> n]

\* try!(read_data(rd)) wrapped in a variant of Integer.
WrapInteger(variant, r) ==
    IF r.res.ok THEN Ret(Ok(Integer(variant, r.res.val)), r.pos) ELSE r

\* Mutant of read_integer: the U64 payload is read as an i64.
read_integer_u64_as_i64(rd) ==
    try(read_marker(rd), LAMBDA marker, p :
        CASE marker.tag = "NegativeFixnum" ->
               Ret(Ok(Integer("I64", IntToNum(marker.v))), p)
          [] marker.tag = "I8" ->
               WrapInteger("I64", read_data_i8(At(rd, p)))
          [] marker.tag = "I16" ->
               WrapInteger("I64", read_data_i16(At(rd, p)))
          [] marker.tag = "I32" ->
               WrapInteger("I64", read_data_i32(At(rd, p)))
          [] marker.tag \in {"I64", "U64"} ->
               WrapInteger("I64", read_data_i64(At(rd, p)))
          [] OTHER -> Ret(Err(InvalidMarker(TypeMismatch)), p))

read_integer(rd) ==
    try(read_marker(rd), LAMBDA marker, p :
        CASE marker.tag = "NegativeFixnum" ->
               Ret(Ok(Integer("I64", IntToNum(marker.v))), p)
          [] marker.tag = "I8" ->
               WrapInteger("I64", read_data_i8(At(rd, p)))
          [] marker.tag = "I16" ->
               WrapInteger("I64", read_data_i16(At(rd, p)))
          [] marker.tag = "I32" ->
               WrapInteger("I64", read_data_i32(At(rd, p)))
          [] marker.tag = "I64" ->
               WrapInteger("I64", read_data_i64(At(rd, p)))
          [] marker.tag = "U64" ->
               WrapInteger("U64", read_data_u64(At(rd, p)))
          [] OTHER -> Ret(Err(InvalidMarker(TypeMismatch)), p))

read_str_len(rd) ==
    try(read_marker(rd), LAMBDA marker, p :
        CASE marker.tag = "FixedString" ->
               Ret(Ok(IntToNum(marker.v)), p)
          [] marker.tag = "Str8" -> read_data_u8(At(rd, p))
          [] marker.tag = "Str16" -> read_data_u16(At(rd, p))
          [] marker.tag = "Str32" -> read_data_u32(At(rd, p))
          [] OTHER -> Ret(Err(InvalidMarker(TypeMismatch)), p))

\* rd.read_u16::<BigEndian>() and rd.read_u32::<BigEndian>() called in
\* place, with the error mapped to InvalidDataRead as the data readers do.
read_array_size(rd) ==
    try(read_marker(rd), LAMBDA marker, p :
        CASE marker.tag = "FixedArray" ->
               Ret(Ok(IntToNum(marker.v)), p)
          [] marker.tag = "Array16" ->
               LET r == read_full(At(rd, p), 2)
               IN  IF r.ok THEN Ret(Ok(Unsigned(BigEndian(r.bytes))), r.pos)
                   ELSE Ret(Err(InvalidDataRead(UnexpectedEOF)), r.pos)
          [] marker.tag = "Array32" ->
               LET r == read_full(At(rd, p), 4)
               IN  IF r.ok THEN Ret(Ok(Unsigned(BigEndian(r.bytes))), r.pos)
                   ELSE Ret(Err(InvalidDataRead(UnexpectedEOF)), r.pos)
          [] OTHER -> Ret(Err(InvalidMarker(TypeMismatch)), p))

\* Mutant of read_map_size: the length of a Map32 is read as a u16.
read_map_size_short(rd) ==
    try(read_marker(rd), LAMBDA marker, p :
        CASE marker.tag = "FixedMap" ->
               Ret(Ok(IntToNum(marker.v)), p)
          [] marker.tag = "Map16" -> read_data_u16(At(rd, p))
          [] marker.tag = "Map32" -> read_data_u16(At(rd, p))
          [] OTHER -> Ret(Err(InvalidMarker(TypeMismatch)), p))

read_map_size(rd) ==
    try(read_marker(rd), LAMBDA marker, p :
        CASE marker.tag = "FixedMap" ->
               Ret(Ok(IntToNum(marker.v)), p)
          [] marker.tag = "Map16" -> read_data_u16(At(rd, p))
          [] marker.tag = "Map32" -> read_data_u32(At(rd, p))
          [] OTHER -> Ret(Err(InvalidMarker(TypeMismatch)), p))

read_f32(rd) ==
    try(read_marker(rd), LAMBDA marker, p :
        CASE marker.tag = "F32" -> read_data_f32(At(rd, p))
          [] OTHER -> Ret(Err(InvalidMarker(TypeMismatch)), p))

read_f64(rd) ==
    try(read_marker(rd), LAMBDA marker, p :
        CASE marker.tag = "F64" -> read_data_f64(At(rd, p))
          [] OTHER -> Ret(Err(InvalidMarker(TypeMismatch)), p))

read_bin_len(rd) ==
    try(read_marker(rd), LAMBDA marker, p :
        CASE marker.tag = "Bin8" -> read_data_u8(At(rd, p))
          [] marker.tag = "Bin16" -> read_data_u16(At(rd, p))
          [] marker.tag = "Bin32" -> read_data_u32(At(rd, p))
          [] OTHER -> Ret(Err(InvalidMarker(TypeMismatch)), p))

(***************************************************************************)
(* Strings.                                                                *)
(***************************************************************************)
IsCont(b) == 128 <= b /\ b <= 191

\* The length of the well-formed UTF-8 sequence at the head of s, 0 if
\* there is none (str::from_utf8 accepts exactly the well-formed sequences
\* of the Unicode standard).
Utf8SeqLen(s) ==
    LET n == Len(s)
        b1 == s[1]
    IN  IF b1 < 128 THEN 1
        ELSE IF 194 <= b1 /\ b1 <= 223
        THEN IF n >= 2 /\ IsCont(s[2]) THEN 2 ELSE 0
        ELSE IF 224 <= b1 /\ b1 <= 239
        THEN IF /\ n >= 3
                /\ IsCont(s[2])
                /\ IsCont(s[3])
                /\ (b1 = 224 => s[2] >= 160)
                /\ (b1 = 237 => s[2] <= 159)
             THEN 3 ELSE 0
        ELSE IF 240 <= b1 /\ b1 <= 244
        THEN IF /\ n >= 4
                /\ IsCont(s[2])
                /\ IsCont(s[3])
                /\ IsCont(s[4])
                /\ (b1 = 240 => s[2] >= 144)
                /\ (b1 = 244 => s[2] <= 143)
             THEN 4 ELSE 0
        ELSE 0

\* A validation that accepts every byte sequence.
from_utf8_unchecked(s) == TRUE

RECURSIVE from_utf8(_)
\* str::from_utf8(s).is_ok()
from_utf8(s) ==
    IF s = <<>> THEN TRUE
    ELSE IF Utf8SeqLen(s) = 0 THEN FALSE
    ELSE from_utf8(SubSeq(s, Utf8SeqLen(s) + 1, Len(s)))

\* A copy that ignores the limit of take(n).
io_copy_unlimited(rd, n) ==
    [size |-> Remaining(rd),
     bytes |-> SubSeq(rd.inner, rd.pos + 1, Len(rd.inner)),
     pos |-> Len(rd.inner)]

\* io::copy(&mut rd.take(n), &mut w) with room for n bytes in w: the bytes
\* of rd, at most n, are appended to w until rd is exhausted.  `size` is
\* the number of bytes copied, `bytes` are the bytes.
io_copy(rd, n) ==
    LET size == IF Remaining(rd) < n THEN Remaining(rd) ELSE n
    IN  [size |-> size,
         bytes |-> SubSeq(rd.inner, rd.pos + 1, rd.pos + size),
         pos |-> rd.pos + size]

\* A write that also fills the rest of buf.
OverwriteFilled(buf, bytes) ==
    [i \in 1..Len(buf) |-> IF i <= Len(bytes) THEN bytes[i] ELSE 255]

\* buf with bytes written over its head.
Overwrite(buf, bytes) ==
    [i \in 1..Len(buf) |-> IF i <= Len(bytes) THEN bytes[i] ELSE buf[i]]

\* What read_str returns: the result, the position and the buffer.
RetBuf(res, p, buf) == [res |-> res, pos |-> p, buf |-> buf]

\* A match that reports the declared length for a short copy.
read_str_copied_declared(len, c, buf) ==
    IF c.size = as_usize(len)
    THEN IF from_utf8(SubSeq(Overwrite(buf, c.bytes), 1, as_usize(len)))
         THEN RetBuf(Ok(SubSeq(Overwrite(buf, c.bytes), 1, as_usize(len))),
                     c.pos, Overwrite(buf, c.bytes))
         ELSE RetBuf(Err(InvalidUtf8(len, Utf8Error)), c.pos,
                     Overwrite(buf, c.bytes))
    ELSE RetBuf(Err(InvalidDataCopy(len, UnexpectedEOF)), c.pos,
                Overwrite(buf, c.bytes))

\* The match on the result of io::copy in read_str.
read_str_copied(len, c, buf) ==
    IF c.size = as_usize(len)
    THEN IF from_utf8(SubSeq(Overwrite(buf, c.bytes), 1, as_usize(len)))
         THEN RetBuf(Ok(SubSeq(Overwrite(buf, c.bytes), 1, as_usize(len))),
                     c.pos, Overwrite(buf, c.bytes))
         ELSE RetBuf(Err(InvalidUtf8(len, Utf8Error)), c.pos,
                     Overwrite(buf, c.bytes))
    ELSE RetBuf(Err(InvalidDataCopy(IntToNum(c.size), UnexpectedEOF)), c.pos,
                Overwrite(buf, c.bytes))

\* A read_str that looks at the payload before it looks at the buffer.
read_str_payload_copy_first(rd, len, buf) ==
    IF Exceeds(len, Remaining(rd))
    THEN RetBuf(Err(InvalidDataCopy(IntToNum(Remaining(rd)), UnexpectedEOF)),
                Len(rd.inner), buf)
    ELSE IF Exceeds(len, Len(buf))
    THEN RetBuf(Err(BufferSizeTooSmall(len)), rd.pos, buf)
    ELSE read_str_copied(len, io_copy(rd, as_usize(len)), buf)

\* read_str after the length has been read.
read_str_payload(rd, len, buf) ==
    IF Exceeds(len, Len(buf))
    THEN RetBuf(Err(BufferSizeTooSmall(len)), rd.pos, buf)
    ELSE read_str_copied(len, io_copy(rd, as_usize(len)), buf)

\* try!(read_str_len(rd)) in read_str: the buffer is untouched on an error.
read_str_try(l, rd, buf) ==
    IF l.res.ok THEN read_str_payload(At(rd, l.pos), l.res.val, buf)
    ELSE RetBuf(l.res, l.pos, buf)

read_str(rd, buf) == read_str_try(read_str_len(rd), rd, buf)

\* A slice taken from the head of rd, the header included.
SliceFromHead(rd, start_, len) ==
    IF Exceeds(len, Len(rd) - start_) THEN Ret(Panic, start_)
    ELSE Ret(Ok(SubSeq(rd, 1, as_usize(len))), start_)

\* The slice of read_str_ref, or the panic of an index out of range.
SliceOrPanic(rd, start_, len) ==
    IF Exceeds(len, Len(rd) - start_) THEN Ret(Panic, start_)
    ELSE Ret(Ok(SubSeq(rd, start_ + 1, start_ + as_usize(len))), start_)

\* rd is a byte slice here, read through a cursor of its own.
read_str_ref(rd) ==
    try(read_str_len(Cursor(rd, 0)), LAMBDA len, start_ :
        SliceOrPanic(rd, start_, len))

(***************************************************************************)
(* Extensions.                                                             *)
(***************************************************************************)
\* (id, data)
Pair(id, data) == <<id, data>>

\* A reader that takes the type id as an unsigned byte.
read_fixext1_unsigned_id(rd) ==
    try(read_marker(rd), LAMBDA marker, p :
        CASE marker.tag = "FixExt1" ->
               try(read_data_u8(At(rd, p)), LAMBDA id, p1 :
                   try(read_data_u8(At(rd, p1)), LAMBDA data, p2 :
                       Ret(Ok(Pair(id, data)), p2)))
          [] OTHER -> Ret(Err(InvalidMarker(TypeMismatch)), p))

read_fixext1(rd) ==
    try(read_marker(rd), LAMBDA marker, p :
        CASE marker.tag = "FixExt1" ->
               try(read_data_i8(At(rd, p)), LAMBDA id, p1 :
                   try(read_data_u8(At(rd, p1)), LAMBDA data, p2 :
                       Ret(Ok(Pair(id, data)), p2)))
          [] OTHER -> Ret(Err(InvalidMarker(TypeMismatch)), p))

read_fixext2(rd) ==
    try(read_marker(rd), LAMBDA marker, p :
        CASE marker.tag = "FixExt2" ->
               try(read_data_i8(At(rd, p)), LAMBDA id, p1 :
                   try(read_data_u16(At(rd, p1)), LAMBDA data, p2 :
                       Ret(Ok(Pair(id, data)), p2)))
          [] OTHER -> Ret(Err(InvalidMarker(TypeMismatch)), p))

\* rd.read_u32::<LittleEndian>() and the transmute of read_fixext4.
read_u32_transmuted(r, id, target_endian) ==
    IF r.ok
    THEN Ret(Ok(Pair(id, transmute(LittleEndian(r.bytes), target_endian))), r.pos)
    ELSE Ret(Err(InvalidDataRead(UnexpectedEOF)), r.pos)

\* target_endian is the byte order of the target the program is built for.
read_fixext4(rd, target_endian) ==
    try(read_marker(rd), LAMBDA marker, p :
        CASE marker.tag = "FixExt4" ->
               try(read_data_i8(At(rd, p)), LAMBDA id, p1 :
                   read_u32_transmuted(read_full(At(rd, p1), 4), id, target_endian))
          [] OTHER -> Ret(Panic, p))

\* The match on io::copy(&mut rd.take(n), &mut &mut out[..]) of
\* read_fixext8 and read_fixext16.
CopiedOrPanic(c, n, id) ==
    IF c.size = n THEN Ret(Ok(Pair(id, c.bytes)), c.pos) ELSE Ret(Panic, c.pos)

read_fixext8(rd) ==
    try(read_marker(rd), LAMBDA marker, p :
        CASE marker.tag = "FixExt8" ->
               try(read_data_i8(At(rd, p)), LAMBDA id, p1 :
                   CopiedOrPanic(io_copy(At(rd, p1), 8), 8, id))
          [] OTHER -> Ret(Panic, p))

read_fixext16(rd) ==
    try(read_marker(rd), LAMBDA marker, p :
        CASE marker.tag = "FixExt16" ->
               try(read_data_i8(At(rd, p)), LAMBDA id, p1 :
                   CopiedOrPanic(io_copy(At(rd, p1), 16), 16, id))
          [] OTHER -> Ret(Panic, p))

ExtMeta(typeid, size) == [typeid |-> typeid, size |-> size]

\* A size that is read from two bytes for Ext32.
ext_size_narrow(rd, marker, p) ==
    CASE marker.tag = "FixExt1" -> Ret(Ok(IntToNum(1)), p)
      [] marker.tag = "FixExt2" -> Ret(Ok(IntToNum(2)), p)
      [] marker.tag = "FixExt4" -> Ret(Ok(IntToNum(4)), p)
      [] marker.tag = "FixExt8" -> Ret(Ok(IntToNum(8)), p)
      [] marker.tag = "FixExt16" -> Ret(Ok(IntToNum(16)), p)
      [] marker.tag = "Ext8" -> read_data_u8(At(rd, p))
      [] marker.tag = "Ext16" -> read_data_u16(At(rd, p))
      [] marker.tag = "Ext32" -> read_data_u16(At(rd, p))
      [] OTHER -> Ret(Panic, p)

\* let size = match ...: the size of the extension by its marker.
ext_size(rd, marker, p) ==
    CASE marker.tag = "FixExt1" -> Ret(Ok(IntToNum(1)), p)
      [] marker.tag = "FixExt2" -> Ret(Ok(IntToNum(2)), p)
      [] marker.tag = "FixExt4" -> Ret(Ok(IntToNum(4)), p)
      [] marker.tag = "FixExt8" -> Ret(Ok(IntToNum(8)), p)
      [] marker.tag = "FixExt16" -> Ret(Ok(IntToNum(16)), p)
      [] marker.tag = "Ext8" -> read_data_u8(At(rd, p))
      [] marker.tag = "Ext16" -> read_data_u16(At(rd, p))
      [] marker.tag = "Ext32" -> read_data_u32(At(rd, p))
      [] OTHER -> Ret(Panic, p)

read_ext_meta(rd) ==
    try(read_marker(rd), LAMBDA marker, p :
        try(ext_size(rd, marker, p), LAMBDA size, p1 :
            try(read_data_i8(At(rd, p1)), LAMBDA typeid, p2 :
                Ret(Ok(ExtMeta(typeid, size)), p2))))

(***************************************************************************)
(* read_value.                                                             *)
(***************************************************************************)
\* Value::Integer(i) or Value::String(s)
Value(variant, v) == [variant |-> variant, v |-> v]

\* The match on io::copy(&mut rd.take(len), &mut buf) of read_value, with
\* the unwrap of String::from_utf8.
ValueStringOrPanic(c, len) ==
    IF c.size = len /\ from_utf8(c.bytes)
    THEN Ret(Ok(Value("String", c.bytes)), c.pos)
    ELSE Ret(Panic, c.pos)

\* A read_value that reads the I32 payload without its sign.
read_value_zero_extended(rd) ==
    try(read_marker(rd), LAMBDA marker, p :
        CASE marker.tag = "I32" ->
               try(read_data_u32(At(rd, p)), LAMBDA x, p1 :
                   Ret(Ok(Value("Integer", Integer("I64", x))), p1))
          [] marker.tag = "Str8" ->
               try(read_data_u8(At(rd, p)), LAMBDA len, p1 :
                   ValueStringOrPanic(io_copy(At(rd, p1), as_usize(len)), as_usize(len)))
          [] OTHER -> Ret(Panic, p))

read_value(rd) ==
    try(read_marker(rd), LAMBDA marker, p :
        CASE marker.tag = "I32" ->
               try(read_data_i32(At(rd, p)), LAMBDA x, p1 :
                   Ret(Ok(Value("Integer", Integer("I64", x))), p1))
          [] marker.tag = "Str8" ->
               try(read_data_u8(At(rd, p)), LAMBDA len, p1 :
                   ValueStringOrPanic(io_copy(At(rd, p1), as_usize(len)), as_usize(len)))
          [] OTHER -> Ret(Panic, p))

(***************************************************************************)
(* The inputs.                                                             *)
(***************************************************************************)
Words == 1..6

\* The payload patterns of the string inputs: the words, and three texts.
Texts == 1..9

\* Byte i of payload pattern w: zeros, ones (the unsigned maximum and -1),
\* the signed minimum, the signed maximum, distinct bytes in ascending
\* order, and the reserved byte; then the texts "\u00e9\u00e9..", the
\* invalid two-byte sequence 0xc3 0x28 followed by "(((..", and "a"
\* followed by 0xff bytes.
Word(w, i) ==
    CASE w = 1 -> 0
      [] w = 2 -> 255
      [] w = 3 -> IF i = 1 THEN 128 ELSE 0
      [] w = 4 -> IF i = 1 THEN 127 ELSE 255
      [] w = 5 -> i
      [] w = 6 -> 193
      [] w = 7 -> IF i % 2 = 1 THEN 195 ELSE 169
      [] w = 8 -> IF i = 1 THEN 195 ELSE 40
      [] OTHER -> IF i = 1 THEN 97 ELSE 255

\* First bytes of the longer inputs: every byte of 0xc0..0xdf and both ends
\* of every fix range.
HeadBytes == (192..223) \cup {0, 127, 128, 143, 144, 159, 160, 191, 224, 255}

\* The number of bytes the readers read after a first byte of 0xc0..0xdf
\* (a number, a length, a type id and a fixed payload), in order.
FieldLens ==
    << 0, 0, 0, 0, 1, 2, 4, 2, 3, 5, 4, 8, 1, 2, 4, 8,
       1, 2, 4, 8, 2, 3, 5, 9, 17, 1, 2, 4, 2, 4, 2, 4 >>

FieldLen(b) == IF 192 <= b /\ b <= 223 THEN FieldLens[b - 191] ELSE 0

\* The empty input, every single byte, and every first byte followed by
\* each prefix of each payload pattern, up to MaxExtra bytes more than the
\* readers read after it.
MarkerInputs ==
    {<<>>} \cup {<<b>> : b \in 0..255}
    \cup UNION { {<<b>> \o [i \in 1..n |-> Word(w, i)] :
                    w \in Words, n \in 1..(FieldLen(b) + MaxExtra)} :
                 b \in HeadBytes }

\* The four string headers that declare length len.
StrHeaders(len) ==
    { <<160 + len>>, <<217, len>>, <<218, 0, len>>, <<219, 0, 0, 0, len>> }

\* Every string header declaring a length up to MaxStr, followed by each
\* prefix of each text: payloads that are short, exact, and followed by up
\* to MaxExtra bytes more.
StrInputs ==
    UNION { {h \o [i \in 1..n |-> Word(w, i)] :
               h \in StrHeaders(len), w \in Texts, n \in 0..(len + MaxExtra)} :
            len \in 0..MaxStr }

\* A well-formed element: its bytes, the reader that matches it, the
\* result of that reader and the destination buffer length it needs.
Element(bytes, r, res, room) ==
    [bytes |-> bytes, reader |-> r, res |-> res, room |-> room]

Elements ==
    { Element(<<20>>, "read_pfix", Ok(IntToNum(20)), 0),
      Element(<<192>>, "read_nil", Ok("unit"), 0),
      Element(<<204, 128>>, "read_u8", Ok(IntToNum(128)), 0),
      Element(<<209, 255, 254>>, "read_i16", Ok(IntToNum(-2)), 0),
      Element(<<161, 97>>, "read_str", Ok(<<97>>), 1),
      Element(<<212, 1, 2>>, "read_fixext1",
              Ok(Pair(IntToNum(1), IntToNum(2))), 0) }

\* The concatenations of n elements.
RECURSIVE Concats(_)
Concats(n) ==
    IF n = 0 THEN {<<>>}
    ELSE {e.bytes \o t : e \in Elements, t \in Concats(n - 1)}

\* One element for every call that can be made.
ConcatInputs == Concats(MaxCalls)

Inputs == MarkerInputs \cup StrInputs \cup ConcatInputs

Init ==
    /\ input \in Inputs
    /\ pos = 0
    /\ reader = "none"
    /\ start = 0
    /\ result = Ok("none")
    /\ dest = <<>>
    /\ calls = 0

\* A source that is rewound before every call.
SourceRewound == Cursor(input, 0)

\* The source rd of the next call.
Source == Cursor(input, pos)

\* The destination buffers handed to read_str: zeroed, as in the tests.
Buffers == {[i \in 1..n |-> 0] : n \in 0..MaxBuf}

\* The byte orders of the targets the program can be built for.
TargetEndians == {"little", "big"}

\* The effect of a call of reader `name` that returned r, with destination
\* buffer buf afterwards (none: <<>>): the cursor has advanced and the call
\* is recorded.
Returned(name, r, buf) ==
    /\ reader' = name
    /\ start' = pos
    /\ result' = r.res
    /\ pos' = r.pos
    /\ dest' = buf
    /\ calls' = calls + 1
    /\ UNCHANGED input

Return(name, r) == Returned(name, r, <<>>)

Call_read_marker ==
    /\ calls < MaxCalls
    /\ Return("read_marker", read_marker(Source))

Call_read_nil ==
    /\ calls < MaxCalls
    /\ Return("read_nil", read_nil(Source))

Call_read_bool ==
    /\ calls < MaxCalls
    /\ Return("read_bool", read_bool(Source))

Call_read_pfix ==
    /\ calls < MaxCalls
    /\ Return("read_pfix", read_pfix(Source))

Call_read_nfix ==
    /\ calls < MaxCalls
    /\ Return("read_nfix", read_nfix(Source))

Call_read_i8 ==
    /\ calls < MaxCalls
    /\ Return("read_i8", read_i8(Source))

Call_read_i16 ==
    /\ calls < MaxCalls
    /\ Return("read_i16", read_i16(Source))

Call_read_i32 ==
    /\ calls < MaxCalls
    /\ Return("read_i32", read_i32(Source))

Call_read_i64 ==
    /\ calls < MaxCalls
    /\ Return("read_i64", read_i64(Source))

Call_read_u8 ==
    /\ calls < MaxCalls
    /\ Return("read_u8", read_u8(Source))

Call_read_u16 ==
    /\ calls < MaxCalls
    /\ Return("read_u16", read_u16(Source))

Call_read_u32 ==
    /\ calls < MaxCalls
    /\ Return("read_u32", read_u32(Source))

Call_read_u64 ==
    /\ calls < MaxCalls
    /\ Return("read_u64", read_u64(Source))

Call_read_u64_loosely ==
    /\ calls < MaxCalls
    /\ Return("read_u64_loosely", read_u64_loosely(Source))

Call_read_i64_loosely ==
    /\ calls < MaxCalls
    /\ Return("read_i64_loosely", read_i64_loosely(Source))

Call_read_integer ==
    /\ calls < MaxCalls
    /\ Return("read_integer", read_integer(Source))

Call_read_str_len ==
    /\ calls < MaxCalls
    /\ Return("read_str_len", read_str_len(Source))

Call_read_array_size ==
    /\ calls < MaxCalls
    /\ Return("read_array_size", read_array_size(Source))

Call_read_map_size ==
    /\ calls < MaxCalls
    /\ Return("read_map_size", read_map_size(Source))

Call_read_f32 ==
    /\ calls < MaxCalls
    /\ Return("read_f32", read_f32(Source))

Call_read_f64 ==
    /\ calls < MaxCalls
    /\ Return("read_f64", read_f64(Source))

Call_read_bin_len ==
    /\ calls < MaxCalls
    /\ Return("read_bin_len", read_bin_len(Source))

Call_read_str ==
    /\ calls < MaxCalls
    /\ \E buf \in Buffers :
         LET r == read_str(Source, buf) IN Returned("read_str", r, r.buf)

\* read_str_ref is handed the unread bytes as a slice; the source itself is
\* not read.
Call_read_str_ref ==
    /\ calls < MaxCalls
    /\ LET r == read_str_ref(SubSeq(input, pos + 1, Len(input)))
       IN  Return("read_str_ref", Ret(r.res, pos))

Call_read_fixext1 ==
    /\ calls < MaxCalls
    /\ Return("read_fixext1", read_fixext1(Source))

Call_read_fixext2 ==
    /\ calls < MaxCalls
    /\ Return("read_fixext2", read_fixext2(Source))

Call_read_fixext4 ==
    /\ calls < MaxCalls
    /\ \E target_endian \in TargetEndians :
         Return("read_fixext4", read_fixext4(Source, target_endian))

Call_read_fixext8 ==
    /\ calls < MaxCalls
    /\ Return("read_fixext8", read_fixext8(Source))

Call_read_fixext16 ==
    /\ calls < MaxCalls
    /\ Return("read_fixext16", read_fixext16(Source))

Call_read_ext_meta ==
    /\ calls < MaxCalls
    /\ Return("read_ext_meta", read_ext_meta(Source))

Call_read_value ==
    /\ calls < MaxCalls
    /\ Return("read_value", read_value(Source))

Next ==
    \/ Call_read_marker
    \/ Call_read_nil
    \/ Call_read_bool
    \/ Call_read_pfix
    \/ Call_read_nfix
    \/ Call_read_i8
    \/ Call_read_i16
    \/ Call_read_i32
    \/ Call_read_i64
    \/ Call_read_u8
    \/ Call_read_u16
    \/ Call_read_u32
    \/ Call_read_u64
    \/ Call_read_u64_loosely
    \/ Call_read_i64_loosely
    \/ Call_read_integer
    \/ Call_read_str_len
    \/ Call_read_array_size
    \/ Call_read_map_size
    \/ Call_read_f32
    \/ Call_read_f64
    \/ Call_read_bin_len
    \/ Call_read_str
    \/ Call_read_str_ref
    \/ Call_read_fixext1
    \/ Call_read_fixext2
    \/ Call_read_fixext4
    \/ Call_read_fixext8
    \/ Call_read_fixext16
    \/ Call_read_ext_meta
    \/ Call_read_value

Spec == Init /\ [][Next]_vars

(***************************************************************************)
(* What the properties below observe of the last call.                     *)
(***************************************************************************)
\* A reader has been called on a source that was not exhausted.
CalledOnByte == reader # "none" /\ start < Len(input)

\* The first byte the last call read.
FirstByte == input[start + 1]

\* The number of bytes the last call consumed.
Consumed == pos - start

\* The number of bytes that followed the first byte of the last call.
Avail == Len(input) - start - 1

\* The k bytes that followed the first byte of the last call.
Field(k) == SubSeq(input, start + 2, start + 1 + k)

\* The marker table of the format, by byte: the tags of 0xc0..0xdf in order.
TagsC0toDF ==
    << "Null", "None", "False", "True", "Bin8", "Bin16", "Bin32",
       "Ext8", "Ext16", "Ext32", "F32", "F64", "U8", "U16", "U32", "U64",
       "I8", "I16", "I32", "I64", "FixExt1", "FixExt2", "FixExt4", "FixExt8",
       "FixExt16", "Str8", "Str16", "Str32", "Array16", "Array32", "Map16",
       "Map32" >>

TagOf(b) ==
    IF b < 128 THEN "PositiveFixnum"
    ELSE IF b < 144 THEN "FixedMap"
    ELSE IF b < 160 THEN "FixedArray"
    ELSE IF b < 192 THEN "FixedString"
    ELSE IF b < 224 THEN TagsC0toDF[b - 191]
    ELSE "NegativeFixnum"

\* mag - 1, for mag > 0.
SubOne(mag) ==
    IF mag[4] > 0 THEN <<mag[1], mag[2], mag[3], mag[4] - 1>>
    ELSE IF mag[3] > 0 THEN <<mag[1], mag[2], mag[3] - 1, Base - 1>>
    ELSE IF mag[2] > 0 THEN <<mag[1], mag[2] - 1, Base - 1, Base - 1>>
    ELSE <<mag[1] - 1, Base - 1, Base - 1, Base - 1>>

\* v is the unsigned number whose big-endian representation is bytes.
IsUnsignedOf(v, bytes) ==
    /\ ~v.neg
    /\ \A j \in 0..7 :
         ByteAt(v.mag, j) = IF j < Len(bytes) THEN bytes[Len(bytes) - j] ELSE 0

\* v is the number whose big-endian two's complement representation is
\* bytes: -m is represented by the complement of m - 1.
IsSignedOf(v, bytes) ==
    IF bytes[1] < 128 THEN IsUnsignedOf(v, bytes)
    ELSE /\ v.neg
         /\ v.mag # ZeroMag
         /\ \A j \in 0..7 :
              ByteAt(SubOne(v.mag), j) =
                IF j < Len(bytes) THEN 255 - bytes[Len(bytes) - j] ELSE 0

IsValueOf(v, bytes, signed) ==
    IF signed THEN IsSignedOf(v, bytes) ELSE IsUnsignedOf(v, bytes)

TypeMismatchAfterOneByte ==
    result = Err(InvalidMarker(TypeMismatch)) /\ Consumed = 1

(***************************************************************************)
(* C1.  Marker decoding is total except for 0xc1: every other byte is      *)
(* matched by exactly one arm of the marker table, which yields the tag    *)
(* the format gives the byte; 0xc1 is matched by no arm that yields a tag  *)
(* and read_marker fails on it with InvalidMarker(Unexpected(0xc1)).       *)
(***************************************************************************)
TagArms(b) == {i \in MatchingArms(b) : MarkerArms[i].tag # "None"}

C1_MarkerTotal ==
    (CalledOnByte /\ reader = "read_marker") =>
        /\ Consumed = 1
        /\ FirstByte # 193 =>
             /\ Cardinality(TagArms(FirstByte)) = 1
             /\ result.ok
             /\ result.val.tag = TagOf(FirstByte)
        /\ FirstByte = 193 =>
             /\ TagArms(FirstByte) = {}
             /\ result = Err(InvalidMarker(Unexpected(193)))

C1_Witness ==
    /\ reader = "read_marker"
    /\ input = <<193>>
    /\ result = Err(InvalidMarker(Unexpected(193)))
    /\ pos = 1

(***************************************************************************)
(* C2.  The payload embedded in a fix-family marker byte b: b itself for a *)
(* positive fixnum, b - 256 for a negative fixnum, b mod 16 for a fixmap   *)
(* and a fixarray, b mod 32 for a fixstr; read_marker decodes it so, and   *)
(* read_pfix, read_nfix, read_map_size, read_array_size and read_str_len   *)
(* return it having consumed the one byte.                                 *)
(***************************************************************************)
FixFamily == {"PositiveFixnum", "NegativeFixnum", "FixedMap", "FixedArray", "FixedString"}

EmbeddedPayload(b) ==
    CASE TagOf(b) = "PositiveFixnum" -> b
      [] TagOf(b) = "NegativeFixnum" -> b - 256
      [] TagOf(b) = "FixedString" -> b % 32
      [] OTHER -> b % 16

FixReader(tag) ==
    CASE tag = "PositiveFixnum" -> "read_pfix"
      [] tag = "NegativeFixnum" -> "read_nfix"
      [] tag = "FixedMap" -> "read_map_size"
      [] tag = "FixedArray" -> "read_array_size"
      [] OTHER -> "read_str_len"

C2_EmbeddedPayload ==
    (CalledOnByte /\ TagOf(FirstByte) \in FixFamily) =>
        /\ reader = "read_marker" =>
             result = Ok(Marker(TagOf(FirstByte), EmbeddedPayload(FirstByte)))
        /\ reader = FixReader(TagOf(FirstByte)) =>
             /\ result = Ok(IntToNum(EmbeddedPayload(FirstByte)))
             /\ Consumed = 1

C2_Witness ==
    /\ reader = "read_nfix"
    /\ input = <<224>>
    /\ result = Ok(IntToNum(-32))
    /\ pos = 1

(***************************************************************************)
(* C3.  A strict integer reader of width k, on its marker followed by at   *)
(* least k bytes, returns the big-endian value of the k bytes (two's       *)
(* complement for the signed readers, the extremes of every domain         *)
(* included) and leaves the position 1 + k further.                        *)
(***************************************************************************)
StrictIntReaders ==
    { "read_u8", "read_u16", "read_u32", "read_u64",
      "read_i8", "read_i16", "read_i32", "read_i64" }

\* The one marker a strict integer reader accepts.
StrictTag(r) ==
    CASE r = "read_u8" -> "U8" [] r = "read_u16" -> "U16"
      [] r = "read_u32" -> "U32" [] r = "read_u64" -> "U64"
      [] r = "read_i8" -> "I8" [] r = "read_i16" -> "I16"
      [] r = "read_i32" -> "I32" [] OTHER -> "I64"

\* The width in bytes of the field that follows a marker.
Width(tag) ==
    CASE tag \in {"U8", "I8", "Str8", "Bin8", "Ext8"} -> 1
      [] tag \in {"U16", "I16", "Str16", "Bin16", "Ext16", "Array16", "Map16"} -> 2
      [] tag \in {"U32", "I32", "F32", "Str32", "Bin32", "Ext32", "Array32", "Map32"} -> 4
      [] tag \in {"U64", "I64", "F64"} -> 8
      [] OTHER -> 0

SignedTags == {"I8", "I16", "I32", "I64"}

\* The extremes of the integer domains: the marker, the bytes and the value,
\* limb by limb.
Extreme(tag, bytes, neg, mag) ==
    [tag |-> tag, bytes |-> bytes, val |-> [neg |-> neg, mag |-> mag]]

Extremes ==
    { Extreme("U8", <<0>>, FALSE, <<0, 0, 0, 0>>),
      Extreme("U8", <<255>>, FALSE, <<0, 0, 0, 255>>),
      Extreme("U16", <<0, 0>>, FALSE, <<0, 0, 0, 0>>),
      Extreme("U16", <<255, 255>>, FALSE, <<0, 0, 0, 65535>>),
      Extreme("U32", <<0, 0, 0, 0>>, FALSE, <<0, 0, 0, 0>>),
      Extreme("U32", <<255, 255, 255, 255>>, FALSE, <<0, 0, 65535, 65535>>),
      Extreme("U64", <<0, 0, 0, 0, 0, 0, 0, 0>>, FALSE, <<0, 0, 0, 0>>),
      Extreme("U64", <<255, 255, 255, 255, 255, 255, 255, 255>>, FALSE,
              <<65535, 65535, 65535, 65535>>),
      Extreme("I8", <<128>>, TRUE, <<0, 0, 0, 128>>),
      Extreme("I8", <<127>>, FALSE, <<0, 0, 0, 127>>),
      Extreme("I16", <<128, 0>>, TRUE, <<0, 0, 0, 32768>>),
      Extreme("I16", <<127, 255>>, FALSE, <<0, 0, 0, 32767>>),
      Extreme("I32", <<128, 0, 0, 0>>, TRUE, <<0, 0, 32768, 0>>),
      Extreme("I32", <<127, 255, 255, 255>>, FALSE, <<0, 0, 32767, 65535>>),
      Extreme("I64", <<128, 0, 0, 0, 0, 0, 0, 0>>, TRUE, <<32768, 0, 0, 0>>),
      Extreme("I64", <<127, 255, 255, 255, 255, 255, 255, 255>>, FALSE,
              <<32767, 65535, 65535, 65535>>) }

\* v is the value of every extreme that (tag, bytes) is.
ExtremesExact(tag, bytes, v) ==
    \A e \in Extremes : (e.tag = tag /\ e.bytes = bytes) => v = e.val

C3_StrictIntegers ==
    (/\ CalledOnByte
     /\ reader \in StrictIntReaders
     /\ TagOf(FirstByte) = StrictTag(reader)
     /\ Avail >= Width(StrictTag(reader))) =>
        LET tag == StrictTag(reader)
            bytes == Field(Width(tag))
        IN  /\ result.ok
            /\ IsValueOf(result.val, bytes, tag \in SignedTags)
            /\ ExtremesExact(tag, bytes, result.val)
            /\ Consumed = 1 + Width(tag)

C3_Witness ==
    /\ reader = "read_i64"
    /\ input = <<211, 128, 0, 0, 0, 0, 0, 0, 0>>
    /\ result = Ok([neg |-> TRUE, mag |-> <<32768, 0, 0, 0>>])
    /\ pos = 9

(***************************************************************************)
(* C4.  A strict reader or a length reader called on a valid marker that   *)
(* is not of its accepted set returns InvalidMarker(TypeMismatch) having   *)
(* consumed exactly 1 byte, whatever follows; it succeeds only on markers  *)
(* of its accepted set.                                                    *)
(***************************************************************************)
StrictAndLengthReaders ==
    StrictIntReaders \cup
    { "read_nil", "read_bool", "read_pfix", "read_nfix", "read_f32", "read_f64",
      "read_str_len", "read_bin_len", "read_array_size", "read_map_size" }

\* The markers each reader accepts.
Accepted(r) ==
    CASE r \in StrictIntReaders -> {StrictTag(r)}
      [] r = "read_nil" -> {"Null"}
      [] r = "read_bool" -> {"True", "False"}
      [] r = "read_pfix" -> {"PositiveFixnum"}
      [] r = "read_nfix" -> {"NegativeFixnum"}
      [] r = "read_f32" -> {"F32"}
      [] r = "read_f64" -> {"F64"}
      [] r = "read_str_len" -> {"FixedString", "Str8", "Str16", "Str32"}
      [] r = "read_bin_len" -> {"Bin8", "Bin16", "Bin32"}
      [] r = "read_array_size" -> {"FixedArray", "Array16", "Array32"}
      [] r = "read_map_size" -> {"FixedMap", "Map16", "Map32"}
      [] OTHER -> {}

C4_TypeMismatch ==
    (/\ CalledOnByte
     /\ reader \in StrictAndLengthReaders
     /\ FirstByte # 193) =>
        /\ TagOf(FirstByte) \notin Accepted(reader) => TypeMismatchAfterOneByte
        /\ result.ok => TagOf(FirstByte) \in Accepted(reader)

C4_Witness ==
    /\ reader = "read_bin_len"
    /\ input = <<217, 1, 2>>
    /\ result = Err(InvalidMarker(TypeMismatch))
    /\ pos = 1

(***************************************************************************)
(* C5.  Every reader called on an empty or exhausted source returns        *)
(* InvalidMarkerRead(UnexpectedEOF) and consumes no byte.  read_str_ref,   *)
(* which is handed a slice, is called on the empty slice; its own cursor   *)
(* stays at 0.                                                             *)
(***************************************************************************)
\* The position read_str_ref's own cursor reached on the slice it was given.
SliceCursor == read_str_ref(SubSeq(input, start + 1, Len(input))).pos

\* The bytes the last call took: from the source, or for read_str_ref from
\* its slice.
Taken == IF reader = "read_str_ref" THEN SliceCursor ELSE Consumed

C5_EmptySource ==
    (reader # "none" /\ start = Len(input)) =>
        /\ result = Err(InvalidMarkerRead(UnexpectedEOF))
        /\ pos = start
        /\ Taken = 0

C5_Witness ==
    /\ reader = "read_fixext8"
    /\ input = <<192>>
    /\ start = 1
    /\ result = Err(InvalidMarkerRead(UnexpectedEOF))
    /\ pos = 1

(***************************************************************************)
(* C6.  Every reader whose next byte is the reserved byte 0xc1 returns     *)
(* InvalidMarker(Unexpected(0xc1)), never TypeMismatch, and has taken      *)
(* exactly that one byte.                                                  *)
(***************************************************************************)
C6_ReservedByte ==
    (CalledOnByte /\ FirstByte = 193) =>
        /\ result = Err(InvalidMarker(Unexpected(193)))
        /\ result # Err(InvalidMarker(TypeMismatch))
        /\ Taken = 1

C6_Witness ==
    /\ reader = "read_ext_meta"
    /\ input = <<193, 255>>
    /\ start = 0
    /\ result = Err(InvalidMarker(Unexpected(193)))
    /\ pos = 1

(***************************************************************************)
(* C7.  read_u64_loosely succeeds exactly on PositiveFixnum, U8, U16, U32  *)
(* and U64: it returns the fixnum or the big-endian unsigned payload and   *)
(* consumes 1, 2, 3, 5 or 9 bytes; on every other valid marker, the signed *)
(* forms included, it returns InvalidMarker(TypeMismatch) having consumed  *)
(* 1 byte.                                                                 *)
(***************************************************************************)
UnsignedTags == {"U8", "U16", "U32", "U64"}

C8_I64Loosely ==
    (CalledOnByte /\ reader = "read_i64_loosely" /\ FirstByte # 193) =>
        LET tag == TagOf(FirstByte)
        IN  /\ tag = "NegativeFixnum" =>
                 result = Ok(IntToNum(FirstByte - 256)) /\ Consumed = 1
            /\ (tag \in SignedTags /\ Avail >= Width(tag)) =>
                 /\ result.ok
                 /\ IsSignedOf(result.val, Field(Width(tag)))
                 /\ ExtremesExact(tag, Field(Width(tag)), result.val)
                 /\ Consumed = 1 + Width(tag)
            /\ tag \notin SignedTags \cup {"NegativeFixnum"} =>
                 result = Err(InvalidMarker(TypeMismatch))
            /\ result.ok => tag \in SignedTags \cup {"NegativeFixnum"}

C8_Witness ==
    /\ reader = "read_i64_loosely"
    /\ input = <<210, 128, 0, 0, 0>>
    /\ result = Ok([neg |-> TRUE, mag |-> <<0, 0, 32768, 0>>])
    /\ pos = 5

(***************************************************************************)
(* C9.  read_integer succeeds exactly on NegativeFixnum, I8, I16, I32, I64 *)
(* and U64: the signed forms yield Integer::I64 of the sign-extended       *)
(* value, U64 yields Integer::U64 of the unsigned value; PositiveFixnum,   *)
(* U8, U16, U32 and every other valid marker yield                         *)
(* InvalidMarker(TypeMismatch) with 1 byte consumed.                       *)
(***************************************************************************)
C9_ReadInteger ==
    (CalledOnByte /\ reader = "read_integer" /\ FirstByte # 193) =>
        LET tag == TagOf(FirstByte)
            ok == SignedTags \cup {"NegativeFixnum", "U64"}
        IN  /\ tag = "NegativeFixnum" =>
                 /\ result = Ok([variant |-> "I64", n |-> IntToNum(FirstByte - 256)])
                 /\ Consumed = 1
            /\ (tag \in SignedTags /\ Avail >= Width(tag)) =>
                 /\ result.ok
                 /\ result.val.variant = "I64"
                 /\ IsSignedOf(result.val.n, Field(Width(tag)))
                 /\ ExtremesExact(tag, Field(Width(tag)), result.val.n)
                 /\ Consumed = 1 + Width(tag)
            /\ (tag = "U64" /\ Avail >= 8) =>
                 /\ result.ok
                 /\ result.val.variant = "U64"
                 /\ IsUnsignedOf(result.val.n, Field(8))
                 /\ ExtremesExact(tag, Field(8), result.val.n)
                 /\ Consumed = 9
            /\ tag \notin ok => TypeMismatchAfterOneByte
            /\ result.ok => tag \in ok

C9_Witness ==
    /\ reader = "read_integer"
    /\ input = <<207, 255, 255, 255, 255, 255, 255, 255, 255>>
    /\ result = Ok([variant |-> "U64", n |-> Unsigned(<<65535, 65535, 65535, 65535>>)])
    /\ pos = 9

(***************************************************************************)
(* C10.  A length reader, on an accepted marker followed by a complete     *)
(* length field, returns the count embedded in a fix marker or the         *)
(* big-endian unsigned value of the 1-, 2- or 4-byte length field, and the *)
(* position afterwards is 1 + w with w = 0, 1, 2, 4: no byte that follows  *)
(* the length field is consumed.                                           *)
(***************************************************************************)
LengthReaders == {"read_str_len", "read_bin_len", "read_array_size", "read_map_size"}

C10_LengthReaders ==
    (/\ CalledOnByte
     /\ reader \in LengthReaders
     /\ TagOf(FirstByte) \in Accepted(reader)
     /\ Avail >= Width(TagOf(FirstByte))) =>
        LET tag == TagOf(FirstByte)
        IN  /\ result.ok
            /\ tag \in FixFamily => result.val = IntToNum(EmbeddedPayload(FirstByte))
            /\ tag \notin FixFamily => IsUnsignedOf(result.val, Field(Width(tag)))
            /\ Width(tag) \in {0, 1, 2, 4}
            /\ Consumed = 1 + Width(tag)

C10_Witness ==
    /\ reader = "read_str_len"
    /\ input = <<218, 1, 2, 3>>
    /\ result = Ok(IntToNum(258))
    /\ pos = 3

(***************************************************************************)
(* Strings, as the format defines them.                                    *)
(***************************************************************************)
StrTags == {"FixedString", "Str8", "Str16", "Str32"}

\* The number of header bytes of a string: the marker and its length field.
HeaderLen(b) ==
    CASE TagOf(b) = "Str8" -> 2
      [] TagOf(b) = "Str16" -> 3
      [] TagOf(b) = "Str32" -> 5
      [] OTHER -> 1

\* The last call was made on a complete string header.
OnStrHeader ==
    /\ CalledOnByte
    /\ TagOf(FirstByte) \in StrTags
    /\ Avail >= HeaderLen(FirstByte) - 1

\* The bytes that hold the declared length, the most significant first.
LenField ==
    IF TagOf(FirstByte) = "FixedString" THEN <<FirstByte - 160>>
    ELSE Field(HeaderLen(FirstByte) - 1)

\* The declared length is below 65536.
LenSmall == \A i \in 1..(Len(LenField) - 2) : LenField[i] = 0

\* The declared length, when it is below 65536.
DeclLen ==
    IF Len(LenField) = 1 THEN LenField[1]
    ELSE 256 * LenField[Len(LenField) - 1] + LenField[Len(LenField)]

\* The number of bytes that follow the header.
PayloadAvail == Len(input) - start - HeaderLen(FirstByte)

\* The first n bytes that follow the header.
Payload(n) ==
    SubSeq(input, start + HeaderLen(FirstByte) + 1,
           start + HeaderLen(FirstByte) + n)

\* The well-formed UTF-8 byte sequences of the Unicode standard: the range
\* of the first byte, the range of the second byte, the length.
Utf8Rows ==
    { <<0, 127, 0, 255, 1>>,
      <<194, 223, 128, 191, 2>>,
      <<224, 224, 160, 191, 3>>,
      <<225, 236, 128, 191, 3>>,
      <<237, 237, 128, 159, 3>>,
      <<238, 239, 128, 191, 3>>,
      <<240, 240, 144, 191, 4>>,
      <<241, 243, 128, 191, 4>>,
      <<244, 244, 128, 143, 4>> }

\* Row r describes the bytes of s from position i.
RowAt(s, i, r) ==
    /\ i + r[5] - 1 <= Len(s)
    /\ r[1] <= s[i] /\ s[i] <= r[2]
    /\ r[5] >= 2 => (r[3] <= s[i + 1] /\ s[i + 1] <= r[4])
    /\ \A j \in 2..(r[5] - 1) : 128 <= s[i + j] /\ s[i + j] <= 191

\* s is a concatenation of well-formed sequences.
WellFormedUtf8(s) ==
    LET ok[k \in 0..Len(s)] ==
            \* the bytes after the first Len(s) - k are well formed
            IF k = 0 THEN TRUE
            ELSE \E r \in Utf8Rows :
                   /\ r[5] <= k
                   /\ RowAt(s, Len(s) - k + 1, r)
                   /\ ok[k - r[5]]
    IN  ok[Len(s)]

(***************************************************************************)
(* C11.  read_str on a complete string header declaring length L, with at  *)
(* least L bytes after it that are well-formed UTF-8 and a destination     *)
(* buffer of L bytes or more, returns those L bytes as text, leaves them   *)
(* in dest[0..L] and stops at header length + L: bytes after the payload   *)
(* stay unread.                                                            *)
(***************************************************************************)
C11_ReadStr ==
    (/\ reader = "read_str"
     /\ OnStrHeader
     /\ LenSmall
     /\ PayloadAvail >= DeclLen
     /\ Len(dest) >= DeclLen
     /\ WellFormedUtf8(Payload(DeclLen))) =>
        /\ result = Ok(Payload(DeclLen))
        /\ SubSeq(dest, 1, DeclLen) = Payload(DeclLen)
        /\ Consumed = HeaderLen(FirstByte) + DeclLen

\* "é" in a buffer of exactly two bytes, with one byte after it.
C11_Witness ==
    /\ reader = "read_str"
    /\ input = <<218, 0, 2, 195, 169, 195>>
    /\ Len(dest) = 2
    /\ result = Ok(<<195, 169>>)
    /\ dest = <<195, 169>>
    /\ pos = 5

(***************************************************************************)
(* C12.  read_str fails with BufferSizeTooSmall(L) exactly when it was     *)
(* called on a complete string header declaring L and the destination      *)
(* buffer is shorter than L; it has then consumed the header and nothing   *)
(* of the payload, so the source continues at the first payload byte.      *)
(***************************************************************************)
\* The last call failed with the error kind `kind`.
FailedWith(kind) == ~result.ok /\ result.err[1] = kind

\* The destination buffer is shorter than the declared length.
BufferShort == ~LenSmall \/ Len(dest) < DeclLen

C12_BufferTooSmall ==
    reader = "read_str" =>
        /\ FailedWith("BufferSizeTooSmall") <=> (OnStrHeader /\ BufferShort)
        /\ FailedWith("BufferSizeTooSmall") =>
             /\ IsUnsignedOf(result.err[2], LenField)
             /\ result = Err(BufferSizeTooSmall(result.err[2]))
             /\ pos = start + HeaderLen(FirstByte)

C12_Witness ==
    /\ reader = "read_str"
    /\ input = <<217, 2, 97, 255>>
    /\ Len(dest) = 1
    /\ result = Err(BufferSizeTooSmall(IntToNum(2)))
    /\ pos = 2

(***************************************************************************)
(* C13.  read_str with a destination buffer of L bytes or more and only    *)
(* n < L bytes after the header fails with InvalidDataCopy(n,              *)
(* UnexpectedEOF), n being the number of bytes that were there, and stops  *)
(* at the end of the input, header length + n.                             *)
(***************************************************************************)
\* read_str was called on a complete header with a buffer that is long
\* enough.
StrWithRoom ==
    /\ reader = "read_str"
    /\ OnStrHeader
    /\ LenSmall
    /\ Len(dest) >= DeclLen

C13_ShortPayload ==
    (StrWithRoom /\ PayloadAvail < DeclLen) =>
        /\ result = Err(InvalidDataCopy(IntToNum(PayloadAvail), UnexpectedEOF))
        /\ Consumed = HeaderLen(FirstByte) + PayloadAvail
        /\ pos = Len(input)

C13_Witness ==
    /\ reader = "read_str"
    /\ input = <<219, 0, 0, 0, 2, 97>>
    /\ Len(dest) = 2
    /\ result = Err(InvalidDataCopy(IntToNum(1), UnexpectedEOF))
    /\ pos = 6

(***************************************************************************)
(* C14.  read_str with a destination buffer of L bytes or more and L bytes *)
(* after the header that are not well-formed UTF-8 fails with              *)
(* InvalidUtf8(L, detail), L being the declared length and not the offset  *)
(* of the bad byte, and stops at header length + L: the payload stays      *)
(* consumed.                                                               *)
(***************************************************************************)
C14_InvalidUtf8 ==
    (/\ StrWithRoom
     /\ PayloadAvail >= DeclLen
     /\ ~WellFormedUtf8(Payload(DeclLen))) =>
        /\ FailedWith("InvalidUtf8")
        /\ result = Err(InvalidUtf8(IntToNum(DeclLen), result.err[3]))
        /\ Consumed = HeaderLen(FirstByte) + DeclLen

\* The bad byte 0xff is at offset 1 of a payload of declared length 2.
C14_Witness ==
    /\ reader = "read_str"
    /\ input = <<162, 97, 255, 255>>
    /\ Len(dest) = 2
    /\ FailedWith("InvalidUtf8")
    /\ result.err[2] = IntToNum(2)
    /\ pos = 3

(***************************************************************************)
(* C15.  Every call of every reader returns a value or an error of one of  *)
(* the kinds of the Error type; no call panics.                            *)
(***************************************************************************)
ErrorKinds ==
    { "InvalidMarker", "InvalidMarkerRead", "InvalidDataRead",
      "BufferSizeTooSmall", "InvalidDataCopy", "InvalidUtf8" }

C15_NoPanic ==
    reader # "none" => (result.ok \/ result.err[1] \in ErrorKinds)

(***************************************************************************)
(* C16.  Each of read_fixext1, read_fixext2, read_fixext4, read_fixext8,   *)
(* read_fixext16 and read_ext_meta, called on a valid marker it does not   *)
(* accept, returns InvalidMarker(TypeMismatch) having consumed 1 byte.     *)
(***************************************************************************)
ExtReaders ==
    { "read_fixext1", "read_fixext2", "read_fixext4", "read_fixext8",
      "read_fixext16", "read_ext_meta" }

\* The markers an extension reader accepts.
ExtAccepted(r) ==
    CASE r = "read_fixext1" -> {"FixExt1"}
      [] r = "read_fixext2" -> {"FixExt2"}
      [] r = "read_fixext4" -> {"FixExt4"}
      [] r = "read_fixext8" -> {"FixExt8"}
      [] r = "read_fixext16" -> {"FixExt16"}
      [] r = "read_ext_meta" ->
           { "FixExt1", "FixExt2", "FixExt4", "FixExt8", "FixExt16",
             "Ext8", "Ext16", "Ext32" }
      [] OTHER -> {}

C16_ExtTypeMismatch ==
    (/\ CalledOnByte
     /\ reader \in ExtReaders
     /\ FirstByte # 193
     /\ TagOf(FirstByte) \notin ExtAccepted(reader)) => TypeMismatchAfterOneByte

(***************************************************************************)
(* C17.  read_fixext4 on 0xd6, t, b0, b1, b2, b3 returns t as a signed     *)
(* byte with [b0, b1, b2, b3], the payload in the order of the source,     *)
(* and stops at position 6.                                                *)
(***************************************************************************)
\* The last call returned an extension: the type id is the byte after the
\* marker read as a signed byte, the data is `data`, n bytes were consumed.
ReturnedExt(data, n) ==
    /\ result.ok
    /\ IsSignedOf(result.val[1], Field(1))
    /\ result.val[2] = data
    /\ Consumed = n

C17_FixExt4SourceOrder ==
    (/\ reader = "read_fixext4"
     /\ CalledOnByte
     /\ FirstByte = 214
     /\ Avail >= 5) => ReturnedExt(SubSeq(input, start + 3, start + 6), 6)

(***************************************************************************)
(* C18.  read_fixext1, read_fixext2, read_fixext8 and read_fixext16, on    *)
(* their own marker followed by a type id and N = 1, 2, 8, 16 payload      *)
(* bytes, return the type id as a signed byte with the payload (a u8, the  *)
(* big-endian u16, the N bytes in the order of the source) and stop at     *)
(* 2 + N.                                                                  *)
(***************************************************************************)
\* The last call returned an extension whose data is the unsigned number
\* held big-endian in the n bytes after the type id.
ReturnedExtNumber(n) ==
    /\ result.ok
    /\ IsSignedOf(result.val[1], Field(1))
    /\ IsUnsignedOf(result.val[2], SubSeq(input, start + 3, start + 2 + n))
    /\ Consumed = 2 + n

\* The last call was reader r on first byte b with at least n more bytes.
CalledOn(r, b, n) ==
    reader = r /\ CalledOnByte /\ FirstByte = b /\ Avail >= n

C18_FixExt ==
    /\ CalledOn("read_fixext1", 212, 2) => ReturnedExtNumber(1)
    /\ CalledOn("read_fixext2", 213, 3) => ReturnedExtNumber(2)
    /\ CalledOn("read_fixext8", 215, 9) =>
         ReturnedExt(SubSeq(input, start + 3, start + 10), 10)
    /\ CalledOn("read_fixext16", 216, 17) =>
         ReturnedExt(SubSeq(input, start + 3, start + 18), 18)

C18_Witness ==
    /\ reader = "read_fixext16"
    /\ input = <<216>> \o [i \in 1..18 |-> i]
    /\ result = Ok(Pair(IntToNum(1), [i \in 1..16 |-> i + 1]))
    /\ pos = 18

(***************************************************************************)
(* C19.  read_ext_meta returns size 1, 2, 4, 8, 16 for FixExt1..FixExt16   *)
(* and the big-endian value of the 1-, 2- or 4-byte length field for Ext8, *)
(* Ext16, Ext32, with the type id the next byte read as a signed byte; it  *)
(* stops at 2 for the fix forms and at 3, 4, 6 for Ext8, Ext16, Ext32.     *)
(***************************************************************************)
\* The width of the length field of an extension marker.
ExtLenWidth(tag) ==
    CASE tag = "Ext8" -> 1
      [] tag = "Ext16" -> 2
      [] tag = "Ext32" -> 4
      [] OTHER -> 0

\* The size of a fixed extension by its marker.
FixExtSize(tag) ==
    CASE tag = "FixExt1" -> 1
      [] tag = "FixExt2" -> 2
      [] tag = "FixExt4" -> 4
      [] tag = "FixExt8" -> 8
      [] OTHER -> 16

\* v is the size the marker and the k bytes after it declare.
IsExtSize(v, tag, k) ==
    IF k = 0 THEN v = IntToNum(FixExtSize(tag)) ELSE IsUnsignedOf(v, Field(k))

C19_ExtMeta ==
    (/\ reader = "read_ext_meta"
     /\ CalledOnByte
     /\ TagOf(FirstByte) \in ExtAccepted("read_ext_meta")
     /\ Avail >= ExtLenWidth(TagOf(FirstByte)) + 1) =>
        LET k == ExtLenWidth(TagOf(FirstByte)) IN
        /\ result.ok
        /\ result.val = ExtMeta(result.val.typeid, result.val.size)
        /\ IsExtSize(result.val.size, TagOf(FirstByte), k)
        /\ IsSignedOf(result.val.typeid, <<input[start + k + 2]>>)
        /\ Consumed = 2 + k

\* Ext32 of the largest size, with type id -1.
C19_Witness ==
    /\ reader = "read_ext_meta"
    /\ input = <<201, 255, 255, 255, 255, 255, 255>>
    /\ result = Ok(ExtMeta([neg |-> TRUE, mag |-> <<0, 0, 0, 1>>],
                           Unsigned(<<0, 0, Base - 1, Base - 1>>)))
    /\ pos = 6

(***************************************************************************)
(* C20.  read_str_ref on a slice that begins with a string header of h     *)
(* bytes declaring length L and holds L bytes after it returns the bytes   *)
(* h .. h+L of the slice unchanged, whether or not they are UTF-8; on a    *)
(* slice without a complete string header it returns the error of          *)
(* read_str_len.                                                           *)
(***************************************************************************)
\* The error of read_str_len on the bytes the last call was given.
StrLenError ==
    IF start = Len(input) THEN InvalidMarkerRead(UnexpectedEOF)
    ELSE IF FirstByte = 193 THEN InvalidMarker(Unexpected(193))
    ELSE IF TagOf(FirstByte) \notin StrTags THEN InvalidMarker(TypeMismatch)
    ELSE InvalidDataRead(UnexpectedEOF)

C20_StrRef ==
    reader = "read_str_ref" =>
        /\ (OnStrHeader /\ LenSmall /\ PayloadAvail >= DeclLen) =>
              result = Ok(Payload(DeclLen))
        /\ ~OnStrHeader => result = Err(StrLenError)
        /\ pos = start

\* A payload that is not UTF-8, with one byte after it.
C20_Witness ==
    /\ reader = "read_str_ref"
    /\ input = <<217, 2, 195, 40, 40>>
    /\ result = Ok(<<195, 40>>)

(***************************************************************************)
(* C21.  read_value on an I32 marker followed by 4 bytes returns           *)
(* Value::Integer(Integer::I64(x)), x the sign-extended big-endian value   *)
(* of the 4 bytes, and stops at 5; on a Str8 marker, a length byte L and   *)
(* L bytes of well-formed UTF-8 it returns Value::String of exactly those  *)
(* L bytes and stops at 2 + L.                                             *)
(***************************************************************************)
C21_ReadValue ==
    /\ CalledOn("read_value", 210, 4) =>
         /\ result.ok
         /\ result.val = Value("Integer", Integer("I64", result.val.v.n))
         /\ IsSignedOf(result.val.v.n, Field(4))
         /\ Consumed = 5
    /\ (/\ CalledOn("read_value", 217, 1)
        /\ PayloadAvail >= DeclLen
        /\ WellFormedUtf8(Payload(DeclLen))) =>
         /\ result = Ok(Value("String", Payload(DeclLen)))
         /\ Consumed = 2 + DeclLen

\* ff ff ff ff is -1, with one byte left unread.
C21_Witness ==
    /\ reader = "read_value"
    /\ input = <<210, 255, 255, 255, 255, 255>>
    /\ result = Ok(Value("Integer", Integer("I64", IntToNum(-1))))
    /\ pos = 5

(***************************************************************************)
(* C22.  Error locality.  For every reader: InvalidMarkerRead is returned  *)
(* only at the end of the input, with no byte consumed; InvalidMarker only *)
(* with exactly 1 byte consumed; InvalidDataRead and InvalidDataCopy only  *)
(* after a first byte that is a marker the reader accepts.  An end of the  *)
(* input after the marker is never InvalidMarkerRead, an end of the input  *)
(* at the marker never InvalidDataRead.                                    *)
(***************************************************************************)
\* The markers every reader accepts.
AllAccepted(r) ==
    CASE r \in StrictAndLengthReaders -> Accepted(r)
      [] r \in ExtReaders -> ExtAccepted(r)
      [] r = "read_u64_loosely" -> UnsignedTags \cup {"PositiveFixnum"}
      [] r = "read_i64_loosely" -> SignedTags \cup {"NegativeFixnum"}
      [] r = "read_integer" -> SignedTags \cup {"NegativeFixnum", "U64"}
      [] r \in {"read_str", "read_str_ref"} -> StrTags
      [] r = "read_value" -> {"I32", "Str8"}
      [] OTHER -> {}

C22_ErrorLocality ==
    reader # "none" =>
        /\ FailedWith("InvalidMarkerRead") => (Taken = 0 /\ start = Len(input))
        /\ FailedWith("InvalidMarker") => (Taken = 1 /\ CalledOnByte)
        /\ (FailedWith("InvalidDataRead") \/ FailedWith("InvalidDataCopy")) =>
             /\ CalledOnByte
             /\ Taken >= 1
             /\ FirstByte # 193
             /\ TagOf(FirstByte) \in AllAccepted(reader)

\* The end of the input after the marker of an extension.
C22_Witness ==
    /\ reader = "read_ext_meta"
    /\ input = <<200, 1>>
    /\ result = Err(InvalidDataRead(UnexpectedEOF))
    /\ pos = 2

(***************************************************************************)
(* C23.  A reader whose accepted marker is followed by j < k bytes of its  *)
(* k-byte field (the number of an integer or float reader, the length of   *)
(* a length reader) returns InvalidDataRead(UnexpectedEOF) with the source *)
(* at the end of the input, 1 + j: the bytes that were there are consumed  *)
(* and the source is not put back to the marker.                           *)
(***************************************************************************)
FieldReaders ==
    StrictAndLengthReaders
    \cup {"read_u64_loosely", "read_i64_loosely", "read_integer"}

C23_TruncatedField ==
    (/\ CalledOnByte
     /\ reader \in FieldReaders
     /\ FirstByte # 193
     /\ TagOf(FirstByte) \in AllAccepted(reader)
     /\ Avail < Width(TagOf(FirstByte))) =>
        /\ result = Err(InvalidDataRead(UnexpectedEOF))
        /\ Consumed = 1 + Avail
        /\ pos = Len(input)

\* Three of the eight bytes of an i64.
C23_Witness ==
    /\ reader = "read_i64"
    /\ input = <<211, 0, 0, 0>>
    /\ result = Err(InvalidDataRead(UnexpectedEOF))
    /\ pos = 4

(***************************************************************************)
(* C24.  Over every sequence of calls on one source the position never     *)
(* decreases and never exceeds the length of the input; and whenever the   *)
(* source stands at the first byte of a well-formed element and the        *)
(* matching reader is called, the call returns the element's value and     *)
(* leaves the source right after the element.  On a concatenation of       *)
(* elements read in order, every call therefore starts at the next         *)
(* element's marker and ends at the sum of the sizes read so far.          *)
(***************************************************************************)
\* The bytes of element e stand at position p of the input.
ElemAt(e, p) ==
    /\ p + Len(e.bytes) <= Len(input)
    /\ SubSeq(input, p + 1, p + Len(e.bytes)) = e.bytes

\* A call of the matching reader on an element reads exactly the element.
MatchingCall ==
    \A e \in Elements :
        (ElemAt(e, pos) /\ reader' = e.reader /\ Len(dest') >= e.room) =>
            (result' = e.res /\ pos' = pos + Len(e.bytes))

\* The source starts at position 0, so the bound on the position after
\* every call bounds it in every state.
C24_Sequences ==
    [][/\ pos' >= pos
       /\ pos' <= Len(input)
       /\ start' = pos
       /\ MatchingCall]_vars

\* The second of two elements has been read, to the end of the input.
C24_Witness ==
    /\ calls = 2
    /\ input = <<209, 255, 254, 212, 1, 2>>
    /\ reader = "read_fixext1"
    /\ start = 3
    /\ result = Ok(Pair(IntToNum(1), IntToNum(2)))
    /\ pos = 6

(***************************************************************************)
(* C25.  read_str reports the first failure in the order: marker read,     *)
(* marker type, length field, destination size, payload truncation, UTF-8  *)
(* validity.  With a destination shorter than L and fewer than L payload   *)
(* bytes the result is BufferSizeTooSmall(L) and no payload byte is        *)
(* consumed; with a truncated payload whose bytes are not UTF-8 the result *)
(* is InvalidDataCopy(n, UnexpectedEOF), never InvalidUtf8.                *)
(***************************************************************************)
\* The outcome of read_str by the first check that fails.
StrOutcome ==
    IF start = Len(input) THEN "InvalidMarkerRead"
    ELSE IF TagOf(FirstByte) \notin StrTags \/ FirstByte = 193 THEN "InvalidMarker"
    ELSE IF ~OnStrHeader THEN "InvalidDataRead"
    ELSE IF BufferShort THEN "BufferSizeTooSmall"
    ELSE IF PayloadAvail < DeclLen THEN "InvalidDataCopy"
    ELSE IF ~WellFormedUtf8(Payload(DeclLen)) THEN "InvalidUtf8"
    ELSE "Ok"

C25_FailureOrder ==
    reader = "read_str" =>
        /\ IF StrOutcome = "Ok" THEN result.ok ELSE FailedWith(StrOutcome)
        /\ (OnStrHeader /\ BufferShort /\ (~LenSmall \/ PayloadAvail < DeclLen)) =>
             /\ FailedWith("BufferSizeTooSmall")
             /\ IsUnsignedOf(result.err[2], LenField)
             /\ Consumed = HeaderLen(FirstByte)
        /\ (StrWithRoom /\ PayloadAvail < DeclLen
              /\ ~WellFormedUtf8(Payload(PayloadAvail))) =>
             /\ result = Err(InvalidDataCopy(IntToNum(PayloadAvail), UnexpectedEOF))
             /\ ~FailedWith("InvalidUtf8")

\* A buffer of one byte with one of two payload bytes in the source.
C25_Witness ==
    /\ reader = "read_str"
    /\ input = <<162, 255>>
    /\ Len(dest) = 1
    /\ result = Err(BufferSizeTooSmall(IntToNum(2)))
    /\ pos = 1

(***************************************************************************)
(* C26.  read_str writes only to dest[0..L].  On success and on            *)
(* InvalidUtf8 every destination byte at index L or more keeps its prior   *)
(* value; on BufferSizeTooSmall, InvalidMarker, InvalidMarkerRead and a    *)
(* truncated length field the destination is unchanged; on                 *)
(* InvalidDataCopy(n, _) the destination holds the n payload bytes that    *)
(* were read in dest[0..n] and its prior values after them.                *)
(***************************************************************************)
\* The destination buffer as it was handed to the last call of read_str.
PriorDest == [i \in 1..Len(dest) |-> 0]

\* The destination holds the first n payload bytes and is unchanged after
\* them.
WrittenUpTo(n) ==
    /\ SubSeq(dest, 1, n) = Payload(n)
    /\ \A i \in (n + 1)..Len(dest) : dest[i] = PriorDest[i]

C26_DestFrame ==
    reader = "read_str" =>
        /\ PriorDest \in Buffers
        /\ (result.ok \/ FailedWith("InvalidUtf8")) => WrittenUpTo(DeclLen)
        /\ (\/ FailedWith("BufferSizeTooSmall")
            \/ FailedWith("InvalidMarker")
            \/ FailedWith("InvalidMarkerRead")
            \/ FailedWith("InvalidDataRead")) => dest = PriorDest
        /\ FailedWith("InvalidDataCopy") =>
             /\ result.err[2] = IntToNum(PayloadAvail)
             /\ WrittenUpTo(PayloadAvail)

\* One byte written to a buffer of two, with a non-zero byte after the
\* payload in the source.
C26_Witness ==
    /\ reader = "read_str"
    /\ input = <<161, 97, 255>>
    /\ dest = <<97, 0>>
    /\ result = Ok(<<97>>)
    /\ pos = 2

====
